---- MODULE Spec2Model ----
(***************************************************************************)
(* Model of the mzML precursor analysis app (src/app.py):                  *)
(*   extract_precursor_data  - walks the spectra of one decoded mzML file  *)
(*   create_histogram_plots  - the charge-state bin edges of the figure    *)
(*   get_summary_stats       - the summary statistics dictionary           *)
(*   main                    - the per-file loop of the Streamlit page     *)
(*                                                                         *)
(* Decimal numbers (m/z, masses) are exact fixed-point values              *)
(* <<Da, microDa, picoDa>> with 0 <= microDa, picoDa < 10^6, so that the    *)
(* proton mass 1.007276466812 is represented exactly.  Python dicts are    *)
(* functions over the set of keys that are present; d.get(k) of an absent  *)
(* key is None, written <<>>, and a present value v is written <<v>>.      *)
(***************************************************************************)
EXTENDS Integers, Sequences, FiniteSets, TLC

VARIABLES
    uploaded_files,   \* number of files handed over by st.file_uploader
    i,                \* 1-based index of the file the for loop of main is at
    pc,               \* position of main / of the pure-function harness
    seen,             \* history: what the spectrum just read carried
    nread,            \* spectra the reader has yielded for the current file
    precursor_mz,     \* the three parallel lists of extract_precursor_data,
    charge_states,    \*   and after its return the lists main holds
    neutral_masses,
    charge_bins,      \* bin edges of the charge histogram, in half units
    stats,            \* the dict returned by get_summary_stats, <<>> if none
    df,               \* rows of the DataFrame behind the CSV, <<>> if none
    outcomes,         \* what the page shows per processed file
    raised,           \* history: the reader raised while decoding this file
    standalone,       \* history: the selected-ion descriptors of this file's MS2
                      \*   spectra that carry both fields, in document order
    nBothPresent,     \* history: ion descriptors of this file with both fields
    emptyCalls        \* history: plot/stats helper invocations with empty lists

vars == <<uploaded_files, i, pc, seen, nread, precursor_mz, charge_states,
          neutral_masses, charge_bins, stats, df, outcomes, raised, standalone,
          nBothPresent, emptyCalls>>

-----------------------------------------------------------------------------
(* Bounds of the model *)

MaxFiles == 2
MaxSpectra == 2
MaxObs == 3

-----------------------------------------------------------------------------
(* Exact decimal arithmetic *)

DecNorm(a, b, c) ==
    LET b1 == b + (c \div 1000000)
    IN  <<a + (b1 \div 1000000), b1 % 1000000, c % 1000000>>

DecMulInt(x, n) == DecNorm(x[1] * n, x[2] * n, x[3] * n)

DecSub(x, y) == DecNorm(x[1] - y[1], x[2] - y[2], x[3] - y[3])

DecAdd(x, y) == DecNorm(x[1] + y[1], x[2] + y[2], x[3] + y[3])

DecLess(x, y) ==
    \/ x[1] < y[1]
    \/ x[1] = y[1] /\ x[2] < y[2]
    \/ x[1] = y[1] /\ x[2] = y[2] /\ x[3] < y[3]

DecLeq(x, y) == x = y \/ DecLess(x, y)

DecZero == <<0, 0, 0>>

\* n hundredths as a decimal
DecOfCents(n) == DecNorm(0, n * 10000, 0)

SeqToSet(s) == {s[k] : k \in DOMAIN s}

-----------------------------------------------------------------------------
(* Python dict access *)

Get(d, key, default) == IF key \in DOMAIN d THEN d[key] ELSE default

GetOpt(d, key) == IF key \in DOMAIN d THEN <<d[key]>> ELSE <<>>

-----------------------------------------------------------------------------
(* extract_precursor_data *)

PROTON_MASS == <<1, 7276, 466812>>

NeutralMassSum(mz, charge) ==
    DecAdd(DecMulInt(mz, charge), DecMulInt(PROTON_MASS, charge))

NeutralMass(mz, charge) ==
    DecSub(DecMulInt(mz, charge), DecMulInt(PROTON_MASS, charge))

EmptyLists == [precursor_mz |-> <<>>, charge_states |-> <<>>, neutral_masses |-> <<>>]

IonBodyEarlyAppend(acc, ion) ==
    LET mz == GetOpt(ion, "selected ion m/z")
        charge == GetOpt(ion, "charge state")
        acc1 == IF mz # <<>>
                THEN [acc EXCEPT !.precursor_mz = Append(@, mz[1])]
                ELSE acc
    IN  IF mz # <<>> /\ charge # <<>>
        THEN [acc1 EXCEPT !.charge_states = Append(@, charge[1]),
                          !.neutral_masses = Append(@, NeutralMass(mz[1], charge[1]))]
        ELSE acc1

IonBodyDefaultCharge(acc, ion) ==
    LET mz == GetOpt(ion, "selected ion m/z")
        charge == Get(ion, "charge state", 0)
    IN  IF mz # <<>>
        THEN [precursor_mz |-> Append(acc.precursor_mz, mz[1]),
              charge_states |-> Append(acc.charge_states, charge),
              neutral_masses |-> Append(acc.neutral_masses, NeutralMass(mz[1], charge))]
        ELSE acc

IonBody(acc, ion) ==
    LET mz == GetOpt(ion, "selected ion m/z")
        charge == GetOpt(ion, "charge state")
    IN  IF mz # <<>> /\ charge # <<>>
        THEN [precursor_mz |-> Append(acc.precursor_mz, mz[1]),
              charge_states |-> Append(acc.charge_states, charge[1]),
              neutral_masses |-> Append(acc.neutral_masses,
                                        NeutralMass(mz[1], charge[1]))]
        ELSE acc

RECURSIVE IonLoopFrom(_, _, _)
IonLoopFrom(acc, selected_ions, k) ==
    IF k > Len(selected_ions)
    THEN acc
    ELSE IonLoopFrom(IonBody(acc, selected_ions[k]), selected_ions, k + 1)

RECURSIVE IonLoopBackwards(_, _)
IonLoopBackwards(acc, selected_ions) ==
    IF selected_ions = <<>>
    THEN acc
    ELSE IonLoopBackwards(IonBody(acc, selected_ions[Len(selected_ions)]),
                          SubSeq(selected_ions, 1, Len(selected_ions) - 1))

IonLoop(acc, selected_ions) == IonLoopFrom(acc, selected_ions, 1)

RECURSIVE PrecursorLoopFrom(_, _, _)
PrecursorLoopFrom(acc, precursors, k) ==
    IF k > Len(precursors)
    THEN acc
    ELSE LET selected_ions ==
                 Get(Get(precursors[k], "selectedIonList", <<>>), "selectedIon", <<>>)
         IN  PrecursorLoopFrom(IonLoop(acc, selected_ions), precursors, k + 1)

PrecursorLoop(acc, precursors) == PrecursorLoopFrom(acc, precursors, 1)

LevelIsNotOne(s) == GetOpt(s, "ms level") # <<1>>

AnyLevel(s) == TRUE

IsMS2(s) == GetOpt(s, "ms level") = <<2>>

Selected(s) == IsMS2(s)

SpectrumBody(acc, s) ==
    IF Selected(s)
    THEN PrecursorLoop(acc, Get(Get(s, "precursorList", <<>>), "precursor", <<>>))
    ELSE acc

-----------------------------------------------------------------------------
(* The decoded documents the reader can yield *)

Mz500_25 == <<500, 250000, 0>>

IonDescriptors ==
    { ("selected ion m/z" :> Mz500_25) @@ ("charge state" :> 2),
      ("selected ion m/z" :> <<445, 126000, 0>>) @@ ("charge state" :> 0),
      ("charge state" :> 3),
      ("selected ion m/z" :> Mz500_25) }

IonCounts == {0, 1, 2}

PrecursorCounts == {0, 1, 2}

\* Spectra of a level other than 2 (MS1, MS3, ...) are all treated alike
MsLevels == {1, 2}

SelectedIonLists == UNION {[1..n -> IonDescriptors] : n \in IonCounts}

PrecursorDescriptors ==
    {<<>>, "selectedIonList" :> <<>>}
    \cup {"selectedIonList" :> ("selectedIon" :> l) : l \in SelectedIonLists}

PrecursorLists == UNION {[1..n -> PrecursorDescriptors] : n \in PrecursorCounts}

AllSpectra ==
    LET levels == {<<>>} \cup {"ms level" :> l : l \in MsLevels}
        lists == {<<>>, "precursorList" :> <<>>}
                 \cup {"precursorList" :> ("precursor" :> pl) : pl \in PrecursorLists}
    IN  {lv @@ pl : lv \in levels, pl \in lists}

\* The selected-ion descriptors a spectrum carries, as <<precursor, ion>> places
IonsOf(s, p) ==
    Get(Get(Get(Get(s, "precursorList", <<>>), "precursor", <<>>)[p],
            "selectedIonList", <<>>), "selectedIon", <<>>)

Places(s) ==
    LET precursors == Get(Get(s, "precursorList", <<>>), "precursor", <<>>)
    IN  UNION {{<<p, k>> : k \in DOMAIN IonsOf(s, p)} : p \in DOMAIN precursors}

BothPresent(ion) == {"selected ion m/z", "charge state"} \subseteq DOMAIN ion

CompletePlaces(s) == {q \in Places(s) : BothPresent(IonsOf(s, q[1])[q[2]])}

\* A spectrum of the model carries at most two selected-ion descriptors
Spectra == {s \in AllSpectra : Cardinality(Places(s)) <= 2}

NothingSeen == [level |-> <<>>, precursors |-> FALSE, incomplete |-> 0]

\* Its MS level, whether it has any precursor descriptor, and how many of its
\* selected-ion descriptors lack a field
Carried(s) ==
    [level |-> GetOpt(s, "ms level"),
     precursors |-> Get(Get(s, "precursorList", <<>>), "precursor", <<>>) # <<>>,
     incomplete |-> Cardinality(Places(s) \ CompletePlaces(s))]

ValidIon(ion) == DecLess(DecZero, ion["selected ion m/z"]) /\ ion["charge state"] >= 1

LexLess(q, r) == q[1] < r[1] \/ (q[1] = r[1] /\ q[2] < r[2])

\* The complete selected-ion descriptors of an MS2 spectrum in (precursor, ion) order
Block(s) ==
    LET S == IF IsMS2(s) THEN CompletePlaces(s) ELSE {}
        rank(q) == Cardinality({r \in S : LexLess(r, q)}) + 1
        at(k) == CHOOSE q \in S : rank(q) = k
    IN  [k \in 1..Cardinality(S) |-> IonsOf(s, at(k)[1])[at(k)[2]]]

-----------------------------------------------------------------------------
(* create_histogram_plots: the charge-state axis.  Bin edges are multiples *)
(* of 0.5 and are kept in half units (edge e stands for e / 2).            *)

MinOf(S) == CHOOSE x \in S : \A y \in S : x <= y

MaxOf(S) == CHOOSE x \in S : \A y \in S : y <= x

RECURSIVE SortedOfSet(_)
SortedOfSet(S) ==
    IF S = {} THEN <<>> ELSE <<MinOf(S)>> \o SortedOfSet(S \ {MinOf(S)})

\* np.arange(start, stop, step): ceil((stop - start) / step) values from start
NpArange(start, stop, step) ==
    LET n == (stop - start + step - 1) \div step
    IN  [k \in 1..(IF n > 0 THEN n ELSE 0) |-> start + (k - 1) * step]

ChargeBinsStopAtMax(charges) ==
    LET unique_charges == SortedOfSet(SeqToSet(charges))
    IN  NpArange(2 * unique_charges[1] - 1,
                 2 * unique_charges[Len(unique_charges)] + 1, 2)

ChargeBins(charges) ==
    LET unique_charges == SortedOfSet(SeqToSet(charges))
    IN  NpArange(2 * unique_charges[1] - 1,
                 2 * unique_charges[Len(unique_charges)] + 3, 2)

\* np.histogram: bin k is [edge k, edge k+1), the last bin also holds its right edge
InBin(edges, k, x2) ==
    /\ edges[k] <= x2
    /\ \/ x2 < edges[k + 1]
       \/ k = Len(edges) - 1 /\ x2 = edges[k + 1]

-----------------------------------------------------------------------------
(* get_summary_stats *)

DecMin(S) == CHOOSE x \in S : \A y \in S : DecLeq(x, y)

DecMax(S) == CHOOSE x \in S : \A y \in S : DecLeq(y, x)

\* f"{x:.2f}": the nearest hundredth, an exact tie going to the even one
Format2f(x) ==
    LET q == x[1] * 100 + (x[2] \div 10000)
        r == x[2] % 10000
    IN  IF r > 5000 \/ (r = 5000 /\ x[3] > 0) THEN q + 1
        ELSE IF r = 5000 /\ x[3] = 0 /\ q % 2 = 1 THEN q + 1
        ELSE q

ChargesSortedOnly(charges) ==
    LET RECURSIVE ins(_, _)
        ins(sorted, c) ==
            IF sorted = <<>> \/ c <= sorted[1]
            THEN <<c>> \o sorted
            ELSE <<sorted[1]>> \o ins(Tail(sorted), c)
        RECURSIVE go(_, _)
        go(sorted, k) ==
            IF k > Len(charges) THEN sorted ELSE go(ins(sorted, charges[k]), k + 1)
    IN  go(<<>>, 1)

ChargeStatesFound(charges) == SortedOfSet(SeqToSet(charges))

get_summary_stats(mzs, charges, masses) ==
    [total |-> Len(mzs),
     mz_range |-> <<Format2f(DecMin(SeqToSet(mzs))), Format2f(DecMax(SeqToSet(mzs)))>>,
     mass_range |-> <<Format2f(DecMin(SeqToSet(masses))),
                      Format2f(DecMax(SeqToSet(masses)))>>,
     charges |-> ChargeStatesFound(charges)]

-----------------------------------------------------------------------------
(* main *)

Lists == [precursor_mz |-> precursor_mz, charge_states |-> charge_states,
          neutral_masses |-> neutral_masses]

SetLists(l) ==
    /\ precursor_mz' = l.precursor_mz
    /\ charge_states' = l.charge_states
    /\ neutral_masses' = l.neutral_masses

Outcome(kind, fig, st, table) == [kind |-> kind, fig |-> fig, stats |-> st, table |-> table]

Finish(o) ==
    /\ outcomes' = Append(outcomes, o)
    /\ i' = i + 1
    /\ pc' = "loop"

Init ==
    /\ uploaded_files \in 0..MaxFiles
    /\ i = 1
    /\ pc = "start"
    /\ seen = NothingSeen
    /\ nread = 0
    /\ precursor_mz = <<>>
    /\ charge_states = <<>>
    /\ neutral_masses = <<>>
    /\ charge_bins = <<>>
    /\ stats = <<>>
    /\ df = <<>>
    /\ outcomes = <<>>
    /\ raised = FALSE
    /\ standalone = <<>>
    /\ nBothPresent = 0
    /\ emptyCalls = 0

\* if uploaded_files: ... else: st.info(...)
Main ==
    /\ pc = "start"
    /\ pc' = IF uploaded_files > 0 THEN "loop" ELSE "done"
    /\ UNCHANGED <<uploaded_files, i, seen, nread, precursor_mz, charge_states,
                   neutral_masses, charge_bins, stats, df, outcomes, raised,
                   standalone, nBothPresent, emptyCalls>>

\* The for loop takes the next file, shows its header and calls
\* extract_precursor_data, which starts from three empty lists
ListsAtCall == EmptyLists

NextFile ==
    /\ pc = "loop"
    /\ i <= uploaded_files
    /\ pc' = "reading"
    /\ SetLists(ListsAtCall)
    /\ seen' = NothingSeen
    /\ nread' = 0
    /\ charge_bins' = <<>>
    /\ stats' = <<>>
    /\ df' = <<>>
    /\ raised' = FALSE
    /\ standalone' = <<>>
    /\ nBothPresent' = 0
    /\ UNCHANGED <<uploaded_files, i, outcomes, emptyCalls>>

LoopEnd ==
    /\ pc = "loop"
    /\ i > uploaded_files
    /\ pc' = "done"
    /\ UNCHANGED <<uploaded_files, i, seen, nread, precursor_mz, charge_states,
                   neutral_masses, charge_bins, stats, df, outcomes, raised,
                   standalone, nBothPresent, emptyCalls>>

\* One iteration of `for spectrum in reader`
ReadSpectrum(s) ==
    /\ pc = "reading"
    /\ nread < MaxSpectra
    /\ seen' = Carried(s)
    /\ nread' = nread + 1
    /\ SetLists(SpectrumBody(Lists, s))
    /\ standalone' = standalone \o Block(s)
    /\ nBothPresent' = nBothPresent + Cardinality(CompletePlaces(s))
    /\ UNCHANGED <<uploaded_files, i, pc, charge_bins, stats, df, outcomes, raised,
                   emptyCalls>>

\* The reader is exhausted: the three lists are returned to main
ReaderEnd ==
    /\ pc = "reading"
    /\ pc' = "extracted"
    /\ UNCHANGED <<uploaded_files, i, seen, nread, precursor_mz, charge_states,
                   neutral_masses, charge_bins, stats, df, outcomes, raised,
                   standalone, nBothPresent, emptyCalls>>

\* mzml.read or the iteration raises: the lists of the call are lost and the
\* except branch of main reports the error for this file
DecodeErrorEndsLoop ==
    /\ pc = "reading"
    /\ raised' = TRUE
    /\ SetLists(EmptyLists)
    /\ outcomes' = Append(outcomes, Outcome("error", FALSE, FALSE, FALSE))
    /\ pc' = "done"
    /\ UNCHANGED <<uploaded_files, i, seen, nread, charge_bins, stats, df,
                   standalone, nBothPresent, emptyCalls>>

DecodeError ==
    /\ pc = "reading"
    /\ raised' = TRUE
    /\ SetLists(EmptyLists)
    /\ Finish(Outcome("error", FALSE, FALSE, FALSE))
    /\ UNCHANGED <<uploaded_files, seen, nread, charge_bins, stats, df,
                   standalone, nBothPresent, emptyCalls>>

NeverNoData(mzs) == FALSE

\* if not precursor_mz
NoData(mzs) == mzs = <<>>

NoPrecursorData ==
    /\ pc = "extracted"
    /\ NoData(precursor_mz)
    /\ Finish(Outcome("warning", FALSE, FALSE, FALSE))
    /\ UNCHANGED <<uploaded_files, seen, nread, precursor_mz, charge_states,
                   neutral_masses, charge_bins, stats, df, raised, standalone,
                   nBothPresent, emptyCalls>>

\* create_histogram_plots and st.pyplot; min() of no charge raises ValueError
CreatePlots ==
    /\ pc = "extracted"
    /\ ~NoData(precursor_mz)
    /\ IF charge_states = <<>>
       THEN /\ Finish(Outcome("error", FALSE, FALSE, FALSE))
            /\ emptyCalls' = emptyCalls + 1
            /\ UNCHANGED charge_bins
       ELSE /\ charge_bins' = ChargeBins(charge_states)
            /\ pc' = "plotted"
            /\ UNCHANGED <<i, outcomes, emptyCalls>>
    /\ UNCHANGED <<uploaded_files, seen, nread, precursor_mz, charge_states,
                   neutral_masses, stats, df, raised, standalone, nBothPresent>>

\* get_summary_stats and the st.metric calls; min() of no value raises ValueError
SummaryStats ==
    /\ pc = "plotted"
    /\ IF precursor_mz = <<>> \/ neutral_masses = <<>>
       THEN /\ Finish(Outcome("error", TRUE, FALSE, FALSE))
            /\ emptyCalls' = emptyCalls + 1
            /\ UNCHANGED stats
       ELSE /\ stats' = get_summary_stats(precursor_mz, charge_states, neutral_masses)
            /\ pc' = "summarised"
            /\ UNCHANGED <<i, outcomes, emptyCalls>>
    /\ UNCHANGED <<uploaded_files, seen, nread, precursor_mz, charge_states,
                   neutral_masses, charge_bins, df, raised, standalone, nBothPresent>>

\* pd.DataFrame({'Precursor_mz': ..., 'Charge_State': ..., 'Neutral_Mass_Da': ...});
\* lists of unequal length raise ValueError
DownloadData ==
    /\ pc = "summarised"
    /\ IF Len(precursor_mz) = Len(charge_states) /\ Len(charge_states) = Len(neutral_masses)
       THEN /\ df' = [k \in 1..Len(precursor_mz) |->
                        [Precursor_mz |-> precursor_mz[k],
                         Charge_State |-> charge_states[k],
                         Neutral_Mass_Da |-> neutral_masses[k]]]
            /\ Finish(Outcome("complete", TRUE, TRUE, TRUE))
       ELSE /\ Finish(Outcome("error", TRUE, TRUE, FALSE))
            /\ UNCHANGED df
    /\ UNCHANGED <<uploaded_files, seen, nread, precursor_mz, charge_states,
                   neutral_masses, charge_bins, stats, raised, standalone,
                   nBothPresent, emptyCalls>>

Next ==
    \/ Main
    \/ NextFile
    \/ LoopEnd
    \/ \E s \in Spectra : ReadSpectrum(s)
    \/ ReaderEnd
    \/ DecodeError
    \/ NoPrecursorData
    \/ CreatePlots
    \/ SummaryStats
    \/ DownloadData

Spec == Init /\ [][Next]_vars

-----------------------------------------------------------------------------
(* The helpers on their own: get_summary_stats and the charge bins of      *)
(* create_histogram_plots applied to any non-empty list of observations    *)

StatsMz == {Mz500_25, <<500, 256000, 0>>, <<445, 124000, 0>>, <<500, 125000, 0>>}

StatsCharges == {0, 2, 3, 5}

InitStats ==
    /\ uploaded_files = 0
    /\ i = 1
    /\ pc = "input"
    /\ seen = NothingSeen
    /\ nread = 0
    /\ \E n \in 1..MaxObs :
         \E mzs \in [1..n -> StatsMz], charges \in [1..n -> StatsCharges] :
            /\ precursor_mz = mzs
            /\ charge_states = charges
            /\ neutral_masses = [k \in 1..n |-> NeutralMass(mzs[k], charges[k])]
    /\ charge_bins = <<>>
    /\ stats = <<>>
    /\ df = <<>>
    /\ outcomes = <<>>
    /\ raised = FALSE
    /\ standalone = <<>>
    /\ nBothPresent = 0
    /\ emptyCalls = 0

CallStats ==
    /\ pc = "input"
    /\ stats' = get_summary_stats(precursor_mz, charge_states, neutral_masses)
    /\ pc' = "stats"
    /\ UNCHANGED <<uploaded_files, i, seen, nread, precursor_mz, charge_states,
                   neutral_masses, charge_bins, df, outcomes, raised, standalone,
                   nBothPresent, emptyCalls>>

CallBins ==
    /\ pc = "stats"
    /\ charge_bins' = ChargeBins(charge_states)
    /\ pc' = "bins"
    /\ UNCHANGED <<uploaded_files, i, seen, nread, precursor_mz, charge_states,
                   neutral_masses, stats, df, outcomes, raised, standalone,
                   nBothPresent, emptyCalls>>

NextStats == CallStats \/ CallBins

SpecStats == InitStats /\ [][NextStats]_vars

-----------------------------------------------------------------------------
(* Properties *)

\* The positions of main at which the three lists hold the current file's data
Extracting == pc \in {"reading", "extracted", "plotted", "summarised"}

SameLengths ==
    /\ Len(precursor_mz) = Len(charge_states)
    /\ Len(charge_states) = Len(neutral_masses)

\* C1 as stated: when extract_precursor_data returns, the number of
\* Observations equals the number of selected-ion descriptors of the document
\* that carry both 'selected ion m/z' and 'charge state'.
C1_CountsEveryCompleteDescriptor ==
    pc = "extracted" => Len(precursor_mz) = nBothPresent

\* C1 amended: the number of Observations equals the number of selected-ion
\* descriptors with both fields present that belong to spectra of MS level 2;
\* a descriptor lacking a field adds no Observation and raises no error.
C1_CountsCompleteDescriptorsOfMS2 ==
    Extracting =>
        /\ Len(precursor_mz) = Len(standalone)
        /\ Len(precursor_mz) <= nBothPresent
        /\ ~raised

\* An MS2 spectrum with one complete and one incomplete descriptor was read
C1_Witness ==
    /\ pc = "extracted"
    /\ nread = 1
    /\ seen.level = <<2>>
    /\ seen.incomplete = 1
    /\ Len(precursor_mz) = 1

\* C2: reading a spectrum whose MS level is absent or not 2, or an MS2
\* spectrum without precursor descriptors, leaves the three lists unchanged
\* and raises no error, whatever the spectrum carries.
C2_OnlyMS2WithPrecursorsYield ==
    [][(nread' = nread + 1 /\ (seen'.level # <<2>> \/ ~seen'.precursors))
          => /\ precursor_mz' = precursor_mz
             /\ charge_states' = charge_states
             /\ neutral_masses' = neutral_masses
             /\ pc' = "reading"
             /\ outcomes' = outcomes]_vars

\* A spectrum without MS level that carries two complete descriptors was read
C2_Witness ==
    /\ pc = "reading"
    /\ nread = 1
    /\ seen.level = <<>>
    /\ nBothPresent = 2
    /\ precursor_mz = <<>>

\* C3: the Observations are in document order: the k-th Observation is read
\* from the k-th complete selected-ion descriptor of the MS2 spectra, counted
\* by scan, then precursor within the scan, then ion within the precursor.
\* Each spectrum adds its own block after the blocks of the spectra before
\* it, so permuting the spectra permutes the blocks.
C3_DocumentOrder ==
    Extracting =>
        /\ Len(precursor_mz) = Len(standalone)
        /\ Len(charge_states) = Len(standalone)
        /\ \A k \in DOMAIN standalone :
              /\ precursor_mz[k] = standalone[k]["selected ion m/z"]
              /\ charge_states[k] = standalone[k]["charge state"]

\* Two spectra of two different Observations each, in opposite orders
C3_Witness ==
    /\ pc = "extracted"
    /\ nread = 2
    /\ charge_states = <<2, 0, 0, 2>>

\* C4: every Observation has neutral_mass = mz*charge - charge*1.007276466812
\* of its own mz and charge; mz = 500.25 with charge 2 gives
\* 998.485447066376, which is within 0.000002 of 998.485446.
C4_NeutralMassFormula ==
    /\ SameLengths
    /\ \A k \in DOMAIN neutral_masses :
          /\ DecAdd(neutral_masses[k], DecMulInt(PROTON_MASS, charge_states[k]))
                = DecMulInt(precursor_mz[k], charge_states[k])
          /\ (precursor_mz[k] = <<500, 250000, 0>> /\ charge_states[k] = 2)
                => /\ neutral_masses[k] = <<998, 485447, 66376>>
                   /\ DecLess(DecSub(neutral_masses[k], <<998, 485446, 0>>),
                              <<0, 2, 0>>)

\* The ion of the example has been extracted
C4_Witness ==
    /\ pc = "extracted"
    /\ \E k \in DOMAIN precursor_mz :
          precursor_mz[k] = <<500, 250000, 0>> /\ charge_states[k] = 2

\* C5 as stated: every Observation has mz > 0 and charge >= 1.
C5_PositiveMzAndCharge ==
    \A k \in DOMAIN precursor_mz :
        DecLess(DecZero, precursor_mz[k]) /\ charge_states[k] >= 1

\* C5 amended: mz and charge are passed through unvalidated, so an
\* Observation has mz > 0 and charge >= 1 exactly when the selected-ion
\* descriptor it is read from has.
C5_PositiveIffDescriptorIs ==
    Extracting =>
        /\ Len(precursor_mz) = Len(standalone)
        /\ Len(charge_states) = Len(standalone)
        /\ \A k \in DOMAIN standalone :
              (DecLess(DecZero, precursor_mz[k]) /\ charge_states[k] >= 1)
                 <=> ValidIon(standalone[k])

\* A descriptor with charge state 0 has become an Observation
C5_Witness ==
    /\ pc = "extracted"
    /\ \E k \in DOMAIN charge_states : charge_states[k] = 0

TableOf(ions) ==
    [k \in DOMAIN ions |->
        [Precursor_mz |-> ions[k]["selected ion m/z"],
         Charge_State |-> ions[k]["charge state"]]]

TableShown == [k \in DOMAIN df |->
                  [Precursor_mz |-> df[k].Precursor_mz,
                   Charge_State |-> df[k].Charge_State]]

\* C6: every file of the batch gets exactly one outcome, fixed by its own
\* content alone.  A file whose decoding raised gets the error outcome with
\* no plot, statistics or table; the files after it are still processed.
C6_PerFileIsolation ==
    /\ Len(outcomes) <= uploaded_files
    /\ pc = "done" => Len(outcomes) = uploaded_files
    /\ pc = "loop" => Len(outcomes) = i - 1
    /\ (pc = "loop" /\ i > 1) =>
          IF raised
          THEN /\ outcomes[i - 1] = Outcome("error", FALSE, FALSE, FALSE)
               /\ charge_bins = <<>>
               /\ df = <<>>
          ELSE IF standalone = <<>>
          THEN /\ outcomes[i - 1] = Outcome("warning", FALSE, FALSE, FALSE)
               /\ charge_bins = <<>>
               /\ df = <<>>
          ELSE /\ outcomes[i - 1] = Outcome("complete", TRUE, TRUE, TRUE)
               /\ TableShown = TableOf(standalone)

\* The first file failed to decode and the second file was reported in full
C6_Witness ==
    /\ pc = "done"
    /\ uploaded_files = 2
    /\ outcomes[1].kind = "error"
    /\ outcomes[2].kind = "complete"
    /\ Len(df) = 2

\* C7: a decoded document without Observations is reported as the warning
\* "no precursor data found", never as an error, and neither
\* create_histogram_plots nor get_summary_stats is invoked with empty lists.
C7_EmptyResultIsWarning ==
    /\ emptyCalls = 0
    /\ pc \in {"plotted", "summarised"} => precursor_mz # <<>>
    /\ (pc = "loop" /\ i > 1 /\ ~raised /\ precursor_mz = <<>>)
          => outcomes[i - 1].kind = "warning"

\* A document of MS1 spectra only has been reported
C7_Witness ==
    /\ pc = "loop"
    /\ i > 1
    /\ ~raised
    /\ nread = 2
    /\ seen.level = <<1>>
    /\ nBothPresent = 4
    /\ outcomes[i - 1].kind = "warning"

ChargeSet == SeqToSet(charge_states)

StrictlyAscending(s) == \A a, b \in DOMAIN s : a < b => s[a] < s[b]

StatsExceptRange ==
    /\ stats.total = Len(precursor_mz)
    /\ StrictlyAscending(stats.charges)
    /\ SeqToSet(stats.charges) = ChargeSet

\* C8 as stated: the reported count is the number of Observations, the
\* reported minimum and maximum mz bound every observed mz, and the reported
\* charge states are strictly ascending and exactly those that occur.
C8_ReportedRangeBoundsEveryMz ==
    pc \in {"stats", "bins"} =>
        /\ StatsExceptRange
        /\ \A k \in DOMAIN precursor_mz :
              /\ DecLeq(DecOfCents(stats.mz_range[1]), precursor_mz[k])
              /\ DecLeq(precursor_mz[k], DecOfCents(stats.mz_range[2]))

\* C8 amended: the minimum and maximum mz are reported rounded to two
\* decimals, so every observed mz lies between the reported minimum - 0.005
\* and the reported maximum + 0.005; count and charge states as stated.
C8_ReportedRangeBoundsWithinHalfCent ==
    pc \in {"stats", "bins"} =>
        /\ StatsExceptRange
        /\ \A k \in DOMAIN precursor_mz :
              /\ DecLeq(DecSub(DecOfCents(stats.mz_range[1]), <<0, 5000, 0>>),
                        precursor_mz[k])
              /\ DecLeq(precursor_mz[k],
                        DecAdd(DecOfCents(stats.mz_range[2]), <<0, 5000, 0>>))
        /\ \E k \in DOMAIN precursor_mz :
              DecLeq(DecSub(DecOfCents(stats.mz_range[1]), <<0, 5000, 0>>),
                     precursor_mz[k])
              /\ DecLeq(precursor_mz[k],
                        DecAdd(DecOfCents(stats.mz_range[1]), <<0, 5000, 0>>))
        /\ \E k \in DOMAIN precursor_mz :
              DecLeq(DecSub(DecOfCents(stats.mz_range[2]), <<0, 5000, 0>>),
                     precursor_mz[k])
              /\ DecLeq(precursor_mz[k],
                        DecAdd(DecOfCents(stats.mz_range[2]), <<0, 5000, 0>>))

\* Statistics of Observations with a repeated charge state and an mz that
\* rounds up
C8_Witness ==
    /\ pc = "stats"
    /\ charge_states = <<3, 2, 3>>
    /\ <<500, 256000, 0>> \in SeqToSet(precursor_mz)
    /\ stats.mz_range[1] = 50026

\* C9: the charge-axis bin edges are m - 0.5, m + 0.5, ..., M + 0.5 for the
\* minimum m and maximum M of the charge states: M - m + 2 edges, and every
\* integer of m..M lies in exactly one bin, which is centred on it.  For
\* {2, 3, 5} the edges are 1.5, 2.5, 3.5, 4.5, 5.5.
C9_ChargeBinEdges ==
    pc = "bins" =>
        LET m == MinOf(ChargeSet)
            M == MaxOf(ChargeSet)
        IN  /\ Len(charge_bins) = M - m + 2
            /\ \A k \in DOMAIN charge_bins : charge_bins[k] = 2 * (m + k - 1) - 1
            /\ \A c \in m..M :
                  \E k \in 1..(Len(charge_bins) - 1) :
                     /\ InBin(charge_bins, k, 2 * c)
                     /\ charge_bins[k] + charge_bins[k + 1] = 4 * c
                     /\ \A j \in 1..(Len(charge_bins) - 1) :
                           InBin(charge_bins, j, 2 * c) => j = k
            /\ ChargeSet = {2, 3, 5} => charge_bins = <<3, 5, 7, 9, 11>>

\* The bins of the charge states 2, 3 and 5
C9_Witness ==
    /\ pc = "bins"
    /\ ChargeSet = {2, 3, 5}

\* C10: the three lists have equal length at every step, row k of the
\* three lists is read from one selected-ion descriptor, and the exported
\* table has these rows.
C10_ParallelLists ==
    /\ SameLengths
    /\ Extracting =>
          /\ Len(precursor_mz) = Len(standalone)
          /\ \A k \in DOMAIN standalone :
                LET ion == standalone[k]
                IN  /\ precursor_mz[k] = ion["selected ion m/z"]
                    /\ charge_states[k] = ion["charge state"]
                    /\ neutral_masses[k] =
                          NeutralMass(ion["selected ion m/z"], ion["charge state"])
    /\ (pc = "loop" /\ Len(df) > 0) =>
          /\ Len(df) = Len(precursor_mz)
          /\ \A k \in DOMAIN df :
                df[k] = [Precursor_mz |-> precursor_mz[k],
                         Charge_State |-> charge_states[k],
                         Neutral_Mass_Da |-> neutral_masses[k]]

\* A table of two different rows has been exported, with an incomplete
\* descriptor skipped in between
C10_Witness ==
    /\ pc = "loop"
    /\ Len(df) = 2
    /\ df[1].Charge_State # df[2].Charge_State
    /\ seen.incomplete > 0

====
